---- MODULE Spec2Model ----
(***************************************************************************)
(* Model of the upki C interface layer (upki-ffi/src/lib.rs): the four     *)
(* entry points upki_check_revocation, upki_config_from_file,              *)
(* upki_config_new and upki_config_free, executed by concurrent caller     *)
(* threads over a shared heap of boxed configurations.  The engine         *)
(* (Config, Manifest) is the environment: each engine call returns one of  *)
(* the outcomes its Rust signature allows, or panics.                      *)
(***************************************************************************)
EXTENDS Integers, Sequences, FiniteSets, TLC

\* ------------------------------------------------------------------ bounds
MaxAddr == 2
MaxSerialLen == 1
MaxCt == 1

\* ------------------------------------------------- result codes (upki_result)
UPKI_OK == 0
UPKI_REVOCATION_NOT_COVERED == 1
UPKI_REVOCATION_REVOKED == 2
UPKI_REVOCATION_NOT_REVOKED == 3
UPKI_ERR_NULL_POINTER == 16
UPKI_ERR_PLATFORM == 17
UPKI_ERR_MANIFEST == 18
UPKI_ERR_REVOCATION_CHECK == 19
UPKI_ERR_CONFIG_PATH == 20
UPKI_ERR_CONFIG_FILE == 21

upki_result ==
  { UPKI_OK, UPKI_REVOCATION_NOT_COVERED, UPKI_REVOCATION_REVOKED,
    UPKI_REVOCATION_NOT_REVOKED, UPKI_ERR_NULL_POINTER, UPKI_ERR_PLATFORM,
    UPKI_ERR_MANIFEST, UPKI_ERR_REVOCATION_CHECK, UPKI_ERR_CONFIG_PATH,
    UPKI_ERR_CONFIG_FILE }

\* --------------------------------------------------------- values and sets
Threads == {1, 2}            \* caller threads
Addr == 1..MaxAddr          \* heap addresses a Box can be allocated at
NULL == 0                   \* the null pointer
BUF == 1                    \* a non-null pointer to the calling thread's buffer
SENTINEL == -1              \* content of an out-slot no handle was written to
NoRet == -1                 \* no result code returned (yet)

SerialBytes == {1, 255}
Serials == UNION { [1..n -> SerialBytes] : n \in 0..MaxSerialLen }
Hashes == { [i \in 1..32 |-> 170], [i \in 1..32 |-> 0] }
CtRecords == { [log_id |-> [i \in 1..32 |-> 7], timestamp |-> 0],
               [log_id |-> [i \in 1..32 |-> 7], timestamp |-> 1700000000] }
CtLists == UNION { [1..n -> CtRecords] : n \in 0..MaxCt }
\* path bytes before the NUL terminator: "", "a", 0xFF, "e-acute", a truncated
\* two-byte sequence, and "a" followed by 0xFF
Paths == { <<>>, <<97>>, <<255>>, <<195, 169>>, <<195>>, <<97, 255>> }

RevocationStatus == {"NotCoveredByRevocationData", "CertainlyRevoked", "NotRevoked"}
FileConfigs == {"fileA", "fileB"}     \* configurations Config::from_file can yield
DefaultConfig == "default"            \* the configuration Config::try_default yields

EmptyMem == [serial |-> <<>>, hash |-> <<>>, ct |-> <<>>, path |-> <<>>]
NoArgs == [op |-> "none", config |-> NULL, serial_ptr |-> NULL, serial_len |-> 0,
           issuer_spki_hash |-> NULL, ct_timestamps |-> NULL, ct_timestamps_len |-> 0,
           path |-> NULL, out |-> NULL]
NoLocals == [manifest |-> "none", input |-> <<>>, path_str |-> <<>>, config_val |-> <<>>]
NoOutcome == [manifest |-> "none", check |-> "none", ctor |-> "none"]

VARIABLES
  pc,         \* pc[t]: position of thread t inside an entry point
  args,       \* args[t]: the arguments of t's current (or last) call
  mem,        \* mem[t]: caller memory of t (serial, hash, ct array, path bytes)
  outSlot,    \* outSlot[t]: the caller storage t passes as out-parameter
  locals,     \* locals[t]: the call's local values (manifest, input, path, config)
  ret,        \* ret[t]: result code of t's last returned call
  heap,       \* heap[a]: <<>> if unallocated, <<c>> if a Box<upki_config(c)>
  aborted,    \* the process was aborted (panic inside an extern "C" fn)
  trace,      \* ghost: trace[t], the effects of t's current call, in order
  outcome,    \* ghost: outcome[t], what the engine answered during the call
  handles,    \* ghost: handles returned by OK constructors and not yet freed
  uaf,        \* ghost: a dead handle was dereferenced
  doubleFree  \* ghost: a dead handle was freed

vars == <<pc, args, mem, outSlot, locals, ret, heap, aborted, trace, outcome,
          handles, uaf, doubleFree>>

Live == { a \in Addr : heap[a] # <<>> }
InFlight(t) == pc[t] \notin {"idle", "done", "aborted"}

\* ------------------------------------------------------------ pure helpers
IsCont(b) == b >= 128 /\ b <= 191

\* variant: the path is decoded lossily, every byte string is accepted
IsUtf8_lossy(s) == TRUE

\* core::str::from_utf8 validity, as used by CStr::to_str
RECURSIVE IsUtf8(_)
IsUtf8(s) ==
  IF s = <<>> THEN TRUE
  ELSE LET b == s[1]
           n == Len(s)
           Rest(k) == IsUtf8(SubSeq(s, k + 1, n))
       IN IF b <= 127 THEN Rest(1)
          ELSE IF b >= 194 /\ b <= 223 THEN n >= 2 /\ IsCont(s[2]) /\ Rest(2)
          ELSE IF b = 224 THEN n >= 3 /\ s[2] >= 160 /\ s[2] <= 191 /\ IsCont(s[3]) /\ Rest(3)
          ELSE IF b = 237 THEN n >= 3 /\ s[2] >= 128 /\ s[2] <= 159 /\ IsCont(s[3]) /\ Rest(3)
          ELSE IF b >= 225 /\ b <= 239 THEN n >= 3 /\ IsCont(s[2]) /\ IsCont(s[3]) /\ Rest(3)
          ELSE IF b = 240 THEN n >= 4 /\ s[2] >= 144 /\ s[2] <= 191 /\ IsCont(s[3]) /\ IsCont(s[4]) /\ Rest(4)
          ELSE IF b = 244 THEN n >= 4 /\ s[2] >= 128 /\ s[2] <= 143 /\ IsCont(s[3]) /\ IsCont(s[4]) /\ Rest(4)
          ELSE IF b >= 241 /\ b <= 243 THEN n >= 4 /\ IsCont(s[2]) /\ IsCont(s[3]) /\ IsCont(s[4]) /\ Rest(4)
          ELSE FALSE

\* variant: the arms for CertainlyRevoked and NotRevoked exchanged
ProjectStatus_swapped(status) ==
  CASE status = "NotCoveredByRevocationData" -> UPKI_REVOCATION_NOT_COVERED
    [] status = "CertainlyRevoked" -> UPKI_REVOCATION_NOT_REVOKED
    [] status = "NotRevoked" -> UPKI_REVOCATION_REVOKED

\* variant: NotRevoked reported as plain UPKI_OK
ProjectStatus_ok(status) ==
  CASE status = "NotCoveredByRevocationData" -> UPKI_REVOCATION_NOT_COVERED
    [] status = "CertainlyRevoked" -> UPKI_REVOCATION_REVOKED
    [] status = "NotRevoked" -> UPKI_OK

\* the match on RevocationStatus in upki_check_revocation
ProjectStatus(status) ==
  CASE status = "NotCoveredByRevocationData" -> UPKI_REVOCATION_NOT_COVERED
    [] status = "CertainlyRevoked" -> UPKI_REVOCATION_REVOKED
    [] status = "NotRevoked" -> UPKI_REVOCATION_NOT_REVOKED

\* RevocationCheckInput built from the caller's buffers
RevocationCheckInput(serial, hash, ct) ==
  [cert_serial |-> serial,
   issuer_spki_hash |-> hash,
   sct_timestamps |-> [i \in 1..Len(ct) |->
                         [log_id |-> ct[i].log_id, timestamp |-> ct[i].timestamp]]]

Init ==
  /\ pc = [t \in Threads |-> "idle"]
  /\ args = [t \in Threads |-> NoArgs]
  /\ mem = [t \in Threads |-> EmptyMem]
  /\ outSlot = [t \in Threads |-> SENTINEL]
  /\ locals = [t \in Threads |-> NoLocals]
  /\ ret = [t \in Threads |-> NoRet]
  /\ heap = [a \in Addr |-> <<>>]
  /\ aborted = FALSE
  /\ trace = [t \in Threads |-> <<>>]
  /\ outcome = [t \in Threads |-> NoOutcome]
  /\ handles = {}
  /\ uaf = FALSE
  /\ doubleFree = FALSE

\* a call begins: fresh locals and ghosts for thread t
Begin(t, a, m) ==
  /\ ~aborted
  /\ pc[t] = "idle"
  /\ args' = [args EXCEPT ![t] = a]
  /\ mem' = [mem EXCEPT ![t] = m]
  /\ outcome' = [outcome EXCEPT ![t] = NoOutcome]

\* a call returns code r; its locals (owned copies) are dropped
Return(t, r) ==
  /\ pc' = [pc EXCEPT ![t] = "done"]
  /\ ret' = [ret EXCEPT ![t] = r]
  /\ locals' = [locals EXCEPT ![t] = NoLocals]

\* a panic reaches the extern "C" boundary: the process aborts
Abort(t) ==
  /\ pc' = [pc EXCEPT ![t] = "aborted"]
  /\ aborted' = TRUE

Log(t, e) == trace' = [trace EXCEPT ![t] = Append(@, e)]

\* ------------------------------------------------------------- variants
\* variant of the null check: a null ct_timestamps is accepted for length 0
upki_check_revocation_lenient(t, a, m) ==
  /\ Begin(t, a, m)
  /\ trace' = [trace EXCEPT ![t] = <<>>]
  /\ IF \/ a.config = NULL
        \/ a.serial_ptr = NULL
        \/ a.issuer_spki_hash = NULL
        \/ (a.ct_timestamps = NULL /\ a.ct_timestamps_len # 0)
     THEN Return(t, UPKI_ERR_NULL_POINTER)
     ELSE /\ pc' = [pc EXCEPT ![t] = "check_manifest"]
          /\ ret' = [ret EXCEPT ![t] = NoRet]
          /\ locals' = [locals EXCEPT ![t] = NoLocals]
  /\ UNCHANGED <<outSlot, heap, aborted, handles, uaf, doubleFree>>

\* variant of the manifest step: the configuration is taken out of the handle
\* (mem::take) and a default one is left behind
upki_check_revocation_manifest_takes(t) ==
  /\ ~aborted
  /\ pc[t] = "check_manifest"
  /\ uaf' = (uaf \/ heap[args[t].config] = <<>>)
  /\ heap' = [heap EXCEPT ![args[t].config] = <<"taken">>]
  /\ Log(t, "Manifest::from_config")
  /\ \/ /\ outcome' = [outcome EXCEPT ![t].manifest = "ok"]
        /\ locals' = [locals EXCEPT ![t].manifest = "loaded"]
        /\ pc' = [pc EXCEPT ![t] = "check_input"]
        /\ UNCHANGED <<ret, aborted>>
     \/ /\ outcome' = [outcome EXCEPT ![t].manifest = "err"]
        /\ Return(t, UPKI_ERR_MANIFEST)
        /\ UNCHANGED aborted
     \/ /\ outcome' = [outcome EXCEPT ![t].manifest = "panic"]
        /\ Abort(t)
        /\ UNCHANGED <<ret, locals>>
  /\ UNCHANGED <<args, mem, outSlot, handles, doubleFree>>

\* variant of the copy: one serial byte too few is copied
upki_check_revocation_input_short(t) ==
  /\ ~aborted
  /\ pc[t] = "check_input"
  /\ Log(t, "copy_inputs")
  /\ locals' = [locals EXCEPT ![t].input =
        << RevocationCheckInput(SubSeq(mem[t].serial, 1, args[t].serial_len - 1),
                                mem[t].hash,
                                SubSeq(mem[t].ct, 1, args[t].ct_timestamps_len)) >>]
  /\ pc' = [pc EXCEPT ![t] = "check_engine"]
  /\ UNCHANGED <<args, mem, outSlot, ret, heap, aborted, outcome, handles,
                 uaf, doubleFree>>

\* variant of the engine step: the handle is taken by value (Box::from_raw)
\* and dropped when the query returns
upki_check_revocation_check_consumes(t) ==
  /\ ~aborted
  /\ pc[t] = "check_engine"
  /\ uaf' = (uaf \/ heap[args[t].config] = <<>>)
  /\ Log(t, "Manifest::check")
  /\ \/ /\ \E status \in RevocationStatus :
             /\ outcome' = [outcome EXCEPT ![t].check = status]
             /\ Return(t, ProjectStatus(status))
        /\ heap' = [heap EXCEPT ![args[t].config] = <<>>]
        /\ doubleFree' = (doubleFree \/ heap[args[t].config] = <<>>)
        /\ handles' = handles \ {args[t].config}
        /\ UNCHANGED aborted
     \/ /\ outcome' = [outcome EXCEPT ![t].check = "err"]
        /\ Return(t, UPKI_ERR_REVOCATION_CHECK)
        /\ heap' = [heap EXCEPT ![args[t].config] = <<>>]
        /\ doubleFree' = (doubleFree \/ heap[args[t].config] = <<>>)
        /\ handles' = handles \ {args[t].config}
        /\ UNCHANGED aborted
     \/ /\ outcome' = [outcome EXCEPT ![t].check = "panic"]
        /\ Abort(t)
        /\ UNCHANGED <<ret, locals, heap, doubleFree, handles>>
  /\ UNCHANGED <<args, mem, outSlot>>

\* variant of the default constructor: *out is cleared to null on failure
upki_config_new_default_clears(t) ==
  /\ ~aborted
  /\ pc[t] = "new_default"
  /\ Log(t, "Config::try_default")
  /\ \/ /\ outcome' = [outcome EXCEPT ![t].ctor = "ok"]
        /\ locals' = [locals EXCEPT ![t].config_val = <<DefaultConfig>>]
        /\ pc' = [pc EXCEPT ![t] = "new_store"]
        /\ UNCHANGED <<ret, aborted, outSlot>>
     \/ /\ outcome' = [outcome EXCEPT ![t].ctor = "err"]
        /\ outSlot' = [outSlot EXCEPT ![t] = NULL]
        /\ Return(t, UPKI_ERR_PLATFORM)
        /\ UNCHANGED aborted
     \/ /\ outcome' = [outcome EXCEPT ![t].ctor = "panic"]
        /\ Abort(t)
        /\ UNCHANGED <<ret, locals, outSlot>>
  /\ UNCHANGED <<args, mem, heap, handles, uaf, doubleFree>>

\* variant of destroy: the Box is forgotten instead of dropped
upki_config_free_leaks(t, a) ==
  /\ Begin(t, a, EmptyMem)
  /\ IF a.config # NULL
     THEN /\ handles' = handles \ {a.config}
          /\ trace' = [trace EXCEPT ![t] = <<>>]
          /\ UNCHANGED <<heap, doubleFree>>
     ELSE /\ trace' = [trace EXCEPT ![t] = <<>>]
          /\ UNCHANGED <<heap, doubleFree, handles>>
  /\ pc' = [pc EXCEPT ![t] = "done"]
  /\ ret' = [ret EXCEPT ![t] = NoRet]
  /\ locals' = [locals EXCEPT ![t] = NoLocals]
  /\ UNCHANGED <<outSlot, aborted, uaf>>

\* ------------------------------------------------- upki_check_revocation
\* entry and null check (lines 25-44); the slices and references formed at
\* lines 41-44 are views, no caller memory is read yet
upki_check_revocation(t, a, m) ==
  /\ Begin(t, a, m)
  /\ trace' = [trace EXCEPT ![t] = <<>>]
  /\ IF \/ a.config = NULL
        \/ a.serial_ptr = NULL
        \/ a.issuer_spki_hash = NULL
        \/ a.ct_timestamps = NULL
     THEN Return(t, UPKI_ERR_NULL_POINTER)
     ELSE /\ pc' = [pc EXCEPT ![t] = "check_manifest"]
          /\ ret' = [ret EXCEPT ![t] = NoRet]
          /\ locals' = [locals EXCEPT ![t] = NoLocals]
  /\ UNCHANGED <<outSlot, heap, aborted, handles, uaf, doubleFree>>

\* let Ok(manifest) = Manifest::from_config(config) else { ERR_MANIFEST }
upki_check_revocation_manifest(t) ==
  /\ ~aborted
  /\ pc[t] = "check_manifest"
  /\ uaf' = (uaf \/ heap[args[t].config] = <<>>)
  /\ Log(t, "Manifest::from_config")
  /\ \/ /\ outcome' = [outcome EXCEPT ![t].manifest = "ok"]
        /\ locals' = [locals EXCEPT ![t].manifest = "loaded"]
        /\ pc' = [pc EXCEPT ![t] = "check_input"]
        /\ UNCHANGED <<ret, aborted>>
     \/ /\ outcome' = [outcome EXCEPT ![t].manifest = "err"]
        /\ Return(t, UPKI_ERR_MANIFEST)
        /\ UNCHANGED aborted
     \/ /\ outcome' = [outcome EXCEPT ![t].manifest = "panic"]
        /\ Abort(t)
        /\ UNCHANGED <<ret, locals>>
  /\ UNCHANGED <<args, mem, outSlot, heap, handles, doubleFree>>

\* let input = RevocationCheckInput { .. }: the caller's buffers are copied
upki_check_revocation_input(t) ==
  /\ ~aborted
  /\ pc[t] = "check_input"
  /\ Log(t, "copy_inputs")
  /\ locals' = [locals EXCEPT ![t].input =
        << RevocationCheckInput(SubSeq(mem[t].serial, 1, args[t].serial_len),
                                mem[t].hash,
                                SubSeq(mem[t].ct, 1, args[t].ct_timestamps_len)) >>]
  /\ pc' = [pc EXCEPT ![t] = "check_engine"]
  /\ UNCHANGED <<args, mem, outSlot, ret, heap, aborted, outcome, handles,
                 uaf, doubleFree>>

\* match manifest.check(&input, config) { .. }
upki_check_revocation_check(t) ==
  /\ ~aborted
  /\ pc[t] = "check_engine"
  /\ uaf' = (uaf \/ heap[args[t].config] = <<>>)
  /\ Log(t, "Manifest::check")
  /\ \/ \E status \in RevocationStatus :
          /\ outcome' = [outcome EXCEPT ![t].check = status]
          /\ Return(t, ProjectStatus(status))
          /\ UNCHANGED aborted
     \/ /\ outcome' = [outcome EXCEPT ![t].check = "err"]
        /\ Return(t, UPKI_ERR_REVOCATION_CHECK)
        /\ UNCHANGED aborted
     \/ /\ outcome' = [outcome EXCEPT ![t].check = "panic"]
        /\ Abort(t)
        /\ UNCHANGED <<ret, locals>>
  /\ UNCHANGED <<args, mem, outSlot, heap, handles, doubleFree>>

\* ------------------------------------------------------- upki_config_new
\* entry and null check (lines 118-121)
upki_config_new(t, a) ==
  /\ Begin(t, a, EmptyMem)
  /\ trace' = [trace EXCEPT ![t] = <<>>]
  /\ IF a.out = NULL
     THEN Return(t, UPKI_ERR_NULL_POINTER)
     ELSE /\ pc' = [pc EXCEPT ![t] = "new_default"]
          /\ ret' = [ret EXCEPT ![t] = NoRet]
          /\ locals' = [locals EXCEPT ![t] = NoLocals]
  /\ UNCHANGED <<outSlot, heap, aborted, handles, uaf, doubleFree>>

\* match Config::try_default() { Ok(config) => .., Err(_) => ERR_PLATFORM }
upki_config_new_default(t) ==
  /\ ~aborted
  /\ pc[t] = "new_default"
  /\ Log(t, "Config::try_default")
  /\ \/ /\ outcome' = [outcome EXCEPT ![t].ctor = "ok"]
        /\ locals' = [locals EXCEPT ![t].config_val = <<DefaultConfig>>]
        /\ pc' = [pc EXCEPT ![t] = "new_store"]
        /\ UNCHANGED <<ret, aborted>>
     \/ /\ outcome' = [outcome EXCEPT ![t].ctor = "err"]
        /\ Return(t, UPKI_ERR_PLATFORM)
        /\ UNCHANGED aborted
     \/ /\ outcome' = [outcome EXCEPT ![t].ctor = "panic"]
        /\ Abort(t)
        /\ UNCHANGED <<ret, locals>>
  /\ UNCHANGED <<args, mem, outSlot, heap, handles, uaf, doubleFree>>

\* *out = Box::into_raw(Box::new(upki_config(config))); UPKI_OK
upki_config_new_store(t) ==
  /\ ~aborted
  /\ pc[t] = "new_store"
  /\ \E p \in Addr \ Live :
       /\ heap' = [heap EXCEPT ![p] = locals[t].config_val]
       /\ outSlot' = [outSlot EXCEPT ![t] = p]
       /\ handles' = handles \cup {p}
  /\ trace' = [trace EXCEPT ![t] = @ \o <<"Box::new", "write_out">>]
  /\ Return(t, UPKI_OK)
  /\ UNCHANGED <<args, mem, aborted, outcome, uaf, doubleFree>>

\* ------------------------------------------------- upki_config_from_file
\* entry and null check (lines 87-93)
upki_config_from_file(t, a, m) ==
  /\ Begin(t, a, m)
  /\ trace' = [trace EXCEPT ![t] = <<>>]
  /\ IF a.path = NULL \/ a.out = NULL
     THEN Return(t, UPKI_ERR_NULL_POINTER)
     ELSE /\ pc' = [pc EXCEPT ![t] = "file_to_str"]
          /\ ret' = [ret EXCEPT ![t] = NoRet]
          /\ locals' = [locals EXCEPT ![t] = NoLocals]
  /\ UNCHANGED <<outSlot, heap, aborted, handles, uaf, doubleFree>>

\* CStr::from_ptr(path).to_str() else { ERR_CONFIG_PATH }
upki_config_from_file_to_str(t) ==
  /\ ~aborted
  /\ pc[t] = "file_to_str"
  /\ Log(t, "CStr::to_str")
  /\ IF IsUtf8(mem[t].path)
     THEN /\ locals' = [locals EXCEPT ![t].path_str = <<mem[t].path>>]
          /\ pc' = [pc EXCEPT ![t] = "file_load"]
          /\ UNCHANGED ret
     ELSE Return(t, UPKI_ERR_CONFIG_PATH)
  /\ UNCHANGED <<args, mem, outSlot, heap, aborted, outcome, handles,
                 uaf, doubleFree>>

\* match Config::from_file(Path::new(path)) { Ok(config) => .., Err(_) => ERR_CONFIG_FILE }
upki_config_from_file_load(t) ==
  /\ ~aborted
  /\ pc[t] = "file_load"
  /\ Log(t, "Config::from_file")
  /\ \/ \E c \in FileConfigs :
          /\ outcome' = [outcome EXCEPT ![t].ctor = "ok"]
          /\ locals' = [locals EXCEPT ![t].config_val = <<c>>]
          /\ pc' = [pc EXCEPT ![t] = "file_store"]
          /\ UNCHANGED <<ret, aborted>>
     \/ /\ outcome' = [outcome EXCEPT ![t].ctor = "err"]
        /\ Return(t, UPKI_ERR_CONFIG_FILE)
        /\ UNCHANGED aborted
     \/ /\ outcome' = [outcome EXCEPT ![t].ctor = "panic"]
        /\ Abort(t)
        /\ UNCHANGED <<ret, locals>>
  /\ UNCHANGED <<args, mem, outSlot, heap, handles, uaf, doubleFree>>

\* *out = Box::into_raw(Box::new(upki_config(config))); UPKI_OK
upki_config_from_file_store(t) ==
  /\ ~aborted
  /\ pc[t] = "file_store"
  /\ \E p \in Addr \ Live :
       /\ heap' = [heap EXCEPT ![p] = locals[t].config_val]
       /\ outSlot' = [outSlot EXCEPT ![t] = p]
       /\ handles' = handles \cup {p}
  /\ trace' = [trace EXCEPT ![t] = @ \o <<"Box::new", "write_out">>]
  /\ Return(t, UPKI_OK)
  /\ UNCHANGED <<args, mem, aborted, outcome, uaf, doubleFree>>

\* ------------------------------------------------------ upki_config_free
\* if !config.is_null() { drop(Box::from_raw(config)) }
upki_config_free(t, a) ==
  /\ Begin(t, a, EmptyMem)
  /\ IF a.config # NULL
     THEN /\ heap' = [heap EXCEPT ![a.config] = <<>>]
          /\ doubleFree' = (doubleFree \/ heap[a.config] = <<>>)
          /\ handles' = handles \ {a.config}
          /\ trace' = [trace EXCEPT ![t] = <<"drop">>]
     ELSE /\ trace' = [trace EXCEPT ![t] = <<>>]
          /\ UNCHANGED <<heap, doubleFree, handles>>
  /\ pc' = [pc EXCEPT ![t] = "done"]
  /\ ret' = [ret EXCEPT ![t] = NoRet]
  /\ locals' = [locals EXCEPT ![t] = NoLocals]
  /\ UNCHANGED <<outSlot, aborted, uaf>>

\* ------------------------------------------------------------ the callers
\* the caller has inspected the result code: it takes the handle out of its
\* out-slot, re-arms the slot, lets its buffers go and is ready to call again
caller_continue(t) ==
  /\ ~aborted
  /\ pc[t] = "done"
  /\ pc' = [pc EXCEPT ![t] = "idle"]
  /\ args' = [args EXCEPT ![t] = NoArgs]
  /\ mem' = [mem EXCEPT ![t] = EmptyMem]
  /\ outSlot' = [outSlot EXCEPT ![t] = SENTINEL]
  /\ ret' = [ret EXCEPT ![t] = NoRet]
  /\ trace' = [trace EXCEPT ![t] = <<>>]
  /\ outcome' = [outcome EXCEPT ![t] = NoOutcome]
  /\ UNCHANGED <<locals, heap, aborted, handles, uaf, doubleFree>>

\* what a caller that keeps the documented obligations may pass
CheckCalls ==
  { [op |-> "check", config |-> c, serial_ptr |-> sp, serial_len |-> sl,
     issuer_spki_hash |-> hp, ct_timestamps |-> cp, ct_timestamps_len |-> cl,
     path |-> NULL, out |-> NULL] :
       c \in {NULL} \cup Live, sp \in {NULL, BUF}, sl \in 0..MaxSerialLen,
       hp \in {NULL, BUF}, cp \in {NULL, BUF}, cl \in 0..MaxCt }

\* the buffers behind the pointers: serial_len bytes, 32 bytes, and
\* ct_timestamps_len records; a null pointer has no buffer
CheckMems(a) ==
  { [serial |-> s, hash |-> h, ct |-> c, path |-> <<>>] :
       s \in [1..(IF a.serial_ptr = NULL THEN 0 ELSE a.serial_len) -> SerialBytes],
       h \in (IF a.issuer_spki_hash = NULL THEN {<<>>} ELSE Hashes),
       c \in [1..(IF a.ct_timestamps = NULL THEN 0 ELSE a.ct_timestamps_len) -> CtRecords] }

\* constructor calls in flight that will allocate a Box
Allocating == { t \in Threads : pc[t] \in {"new_default", "new_store", "file_to_str",
                                           "file_load", "file_store"} }
HeapRoom == Cardinality(Live) + Cardinality(Allocating) < MaxAddr

NewCalls == { [NoArgs EXCEPT !.op = "new", !.out = o] : o \in {NULL, BUF} }

FromFileCalls ==
  { [NoArgs EXCEPT !.op = "from_file", !.path = p, !.out = o] :
       p \in {NULL, BUF}, o \in {NULL, BUF} }

FromFileMems(a) ==
  { [EmptyMem EXCEPT !.path = p] : p \in (IF a.path = NULL THEN {<<>>} ELSE Paths) }

\* destroy is externally synchronized against the last use of the handle
Borrowed(c) == \E u \in Threads : InFlight(u) /\ args[u].op = "check" /\ args[u].config = c
FreeCalls ==
  { [NoArgs EXCEPT !.op = "free", !.config = c] :
       c \in {NULL} \cup { h \in Live : ~Borrowed(h) } }

\* the steps inside the entry points
Steps(t) ==
  \/ upki_check_revocation_manifest(t)
  \/ upki_check_revocation_input(t)
  \/ upki_check_revocation_check(t)
  \/ upki_config_new_default(t)
  \/ upki_config_new_store(t)
  \/ upki_config_from_file_to_str(t)
  \/ upki_config_from_file_load(t)
  \/ upki_config_from_file_store(t)

\* one caller thread, every combination of arguments
call_check_revocation(t) ==
  pc[t] = "idle" /\ \E a \in CheckCalls : \E m \in CheckMems(a) :
                       upki_check_revocation(t, a, m)

call_config_new(t) ==
  pc[t] = "idle" /\ \E a \in NewCalls :
                       (a.out # NULL => HeapRoom) /\ upki_config_new(t, a)

call_config_from_file(t) ==
  pc[t] = "idle" /\ \E a \in FromFileCalls : \E m \in FromFileMems(a) :
                       /\ (a.out # NULL /\ a.path # NULL) => HeapRoom
                       /\ upki_config_from_file(t, a, m)

call_config_free(t) ==
  pc[t] = "idle" /\ \E a \in FreeCalls : upki_config_free(t, a)

Next ==
  \E t \in {1} :
    \/ call_check_revocation(t)
    \/ call_config_new(t)
    \/ call_config_from_file(t)
    \/ call_config_free(t)
    \/ Steps(t)
    \/ caller_continue(t)

Spec == Init /\ [][Next]_vars

\* concurrent caller threads; every pointer they pass is non-null and the
\* buffers are full
ConcCheckCalls ==
  { [op |-> "check", config |-> c, serial_ptr |-> BUF, serial_len |-> MaxSerialLen,
     issuer_spki_hash |-> BUF, ct_timestamps |-> BUF, ct_timestamps_len |-> MaxCt,
     path |-> NULL, out |-> NULL] : c \in Live }
ConcMem ==
  [serial |-> [i \in 1..MaxSerialLen |-> 1],
   hash |-> [i \in 1..32 |-> 170],
   ct |-> [i \in 1..MaxCt |-> [log_id |-> [k \in 1..32 |-> 7], timestamp |-> 1700000000]],
   path |-> <<>>]
ConcNewCalls == { [NoArgs EXCEPT !.op = "new", !.out = BUF] }
ConcFromFileCalls == { [NoArgs EXCEPT !.op = "from_file", !.path = BUF, !.out = BUF] }
ConcPaths == { <<97>>, <<255>> }

conc_check_revocation(t) ==
  pc[t] = "idle" /\ \E a \in ConcCheckCalls : upki_check_revocation(t, a, ConcMem)

conc_config_new(t) ==
  pc[t] = "idle" /\ \E a \in ConcNewCalls : HeapRoom /\ upki_config_new(t, a)

conc_config_from_file(t) ==
  pc[t] = "idle" /\ \E a \in ConcFromFileCalls : \E p \in ConcPaths :
                       /\ HeapRoom
                       /\ upki_config_from_file(t, a, [EmptyMem EXCEPT !.path = p])

NextConc ==
  \E t \in Threads :
    \/ conc_check_revocation(t)
    \/ conc_config_new(t)
    \/ conc_config_from_file(t)
    \/ call_config_free(t)
    \/ Steps(t)
    \/ caller_continue(t)

SpecConc == Init /\ [][NextConc]_vars

\* ----------------------------------------------------- shared vocabulary
N(tr, e) == Cardinality({ i \in 1..Len(tr) : tr[i] = e })
Has(t, e) == N(trace[t], e) > 0
EngineCalls == {"Config::try_default", "Config::from_file",
                "Manifest::from_config", "Manifest::check"}
NoEngineCall(tr) == \A i \in 1..Len(tr) : tr[i] \notin EngineCalls
Constructors == {"new", "from_file"}
CheckPcs == {"check_manifest", "check_input", "check_engine"}

\* some required pointer argument of the call is null
NullArg(a) ==
  CASE a.op = "check" -> \/ a.config = NULL \/ a.serial_ptr = NULL
                         \/ a.issuer_spki_hash = NULL \/ a.ct_timestamps = NULL
    [] a.op = "new" -> a.out = NULL
    [] a.op = "from_file" -> a.path = NULL \/ a.out = NULL
    [] OTHER -> FALSE

TypeOK ==
  /\ \A t \in Threads : ret[t] \in upki_result \cup {NoRet}
  /\ \A t \in Threads : outSlot[t] \in Addr \cup {SENTINEL}

\* ------------------------------------------------------------------- C1
\* C1: a call of upki_check_revocation, upki_config_from_file or
\* upki_config_new with a null required pointer returns ERR_NULL_POINTER in
\* the step that enters it, invokes no engine operation, allocates nothing
\* and leaves heap, handles and out-slots as they were (also for a null
\* ct_timestamps with ct_timestamps_len = 0); upki_config_free(null) returns
\* normally and changes nothing.
C1_NullRejection ==
  [][\A t \in Threads :
       /\ (pc[t] = "idle" /\ NullArg(args'[t])) =>
            /\ pc'[t] = "done"
            /\ ret'[t] = UPKI_ERR_NULL_POINTER
            /\ trace'[t] = <<>>
            /\ heap' = heap /\ handles' = handles /\ outSlot' = outSlot
            /\ ~aborted'
       /\ (pc[t] = "idle" /\ args'[t].op = "free" /\ args'[t].config = NULL) =>
            /\ pc'[t] = "done"
            /\ ret'[t] = NoRet
            /\ trace'[t] = <<>>
            /\ heap' = heap /\ handles' = handles /\ outSlot' = outSlot
            /\ ~aborted']_vars

\* a query on a live handle with ct_timestamps = null and length 0 was rejected
C1_Witness ==
  \E t \in Threads :
    /\ pc[t] = "done" /\ args[t].op = "check"
    /\ args[t].config \in Live /\ args[t].serial_ptr # NULL
    /\ args[t].issuer_spki_hash # NULL
    /\ args[t].ct_timestamps = NULL /\ args[t].ct_timestamps_len = 0
    /\ ret[t] = UPKI_ERR_NULL_POINTER

\* ------------------------------------------------------------------- C2
\* C2: during a call the out-slot of a constructor changes only in the step in which the
\* constructor returns OK, and a constructor that returns OK has written a
\* non-null live handle to it exactly once; on every error return the slot
\* keeps its prior content.
C2_OutParamDiscipline ==
  [][\A t \in Threads :
       /\ (outSlot'[t] # outSlot[t] /\ pc[t] # "done") =>
            /\ args[t].op \in Constructors
            /\ pc'[t] = "done" /\ ret'[t] = UPKI_OK
       /\ (pc'[t] = "done" /\ pc[t] # "done" /\ args'[t].op \in Constructors) =>
            IF ret'[t] = UPKI_OK
            THEN /\ outSlot'[t] \in Addr
                 /\ heap'[outSlot'[t]] # <<>>
                 /\ N(trace'[t], "write_out") = 1
            ELSE /\ ret'[t] \in {UPKI_ERR_NULL_POINTER, UPKI_ERR_PLATFORM,
                                 UPKI_ERR_CONFIG_PATH, UPKI_ERR_CONFIG_FILE}
                 /\ outSlot'[t] = outSlot[t]
                 /\ N(trace'[t], "write_out") = 0]_vars

\* the file constructor failed on a bad path and the sentinel is still there
C2_Witness ==
  \E t \in Threads :
    /\ pc[t] = "done" /\ args[t].op = "from_file"
    /\ ret[t] = UPKI_ERR_CONFIG_PATH /\ outSlot[t] = SENTINEL

\* ------------------------------------------------------------------- C3
\* C3: a panic of the engine inside upki_check_revocation or
\* upki_config_from_file is caught and the call returns
\* ERR_REVOCATION_CHECK, respectively ERR_CONFIG_FILE.
C3_PanicMapped ==
  \A t \in Threads :
    ("panic" \in {outcome[t].manifest, outcome[t].check, outcome[t].ctor}
       /\ args[t].op \in {"check", "from_file"}) =>
      /\ pc[t] = "done"
      /\ ret[t] = (IF args[t].op = "check" THEN UPKI_ERR_REVOCATION_CHECK
                                           ELSE UPKI_ERR_CONFIG_FILE)

\* ------------------------------------------------------------------- C4
\* the owned copy of the caller's buffers, as the engine is to receive it
CopyOf(t) ==
  << RevocationCheckInput(SubSeq(mem[t].serial, 1, args[t].serial_len), mem[t].hash,
                          SubSeq(mem[t].ct, 1, args[t].ct_timestamps_len)) >>

CheckReference(a, o) ==
  IF NullArg(a) THEN UPKI_ERR_NULL_POINTER
  ELSE IF o.manifest = "err" THEN UPKI_ERR_MANIFEST
  ELSE IF o.check = "err" THEN UPKI_ERR_REVOCATION_CHECK
  ELSE IF o.check = "NotCoveredByRevocationData" THEN 1
  ELSE IF o.check = "CertainlyRevoked" THEN 2
  ELSE IF o.check = "NotRevoked" THEN 3
  ELSE NoRet

\* C5: a returned upki_check_revocation call has the result the fixed order
\* prescribes (null pointer, then manifest failure, then engine error, then
\* the one-to-one projection of the status), and the engine check was not
\* invoked when the null check or the manifest failed.
C5_CheckOrder ==
  \A t \in Threads :
    (pc[t] = "done" /\ args[t].op = "check") =>
      /\ ret[t] = CheckReference(args[t], outcome[t])
      /\ ret[t] \in {UPKI_ERR_NULL_POINTER, UPKI_ERR_MANIFEST} =>
           ~Has(t, "Manifest::check")
      /\ ret[t] = UPKI_ERR_NULL_POINTER => ~Has(t, "Manifest::from_config")

\* the engine said CertainlyRevoked and the query returned REV_REVOKED
C5_Witness ==
  \E t \in Threads :
    /\ pc[t] = "done" /\ args[t].op = "check"
    /\ outcome[t].manifest = "ok" /\ outcome[t].check = "CertainlyRevoked"
    /\ ret[t] = UPKI_REVOCATION_REVOKED

\* ------------------------------------------------------------------- C6
\* the members of Paths that are well-formed UTF-8: "", "a" and U+00E9
ValidPaths == { <<>>, <<97>>, <<195, 169>> }

\* the result the documented priority order prescribes for the file constructor
FromFileReference(a, path, o) ==
  IF a.path = NULL \/ a.out = NULL THEN UPKI_ERR_NULL_POINTER
  ELSE IF path \notin ValidPaths THEN UPKI_ERR_CONFIG_PATH
  ELSE IF o.ctor = "err" THEN UPKI_ERR_CONFIG_FILE
  ELSE IF o.ctor = "ok" THEN UPKI_OK
  ELSE NoRet

\* C6: a returned upki_config_from_file call has the result of the priority
\* order null pointer, non-UTF-8 path, load failure, OK; the engine's loader
\* is not invoked on the first two.
C6_FromFileOrder ==
  \A t \in Threads :
    (pc[t] = "done" /\ args[t].op = "from_file") =>
      /\ ret[t] = FromFileReference(args[t], mem[t].path, outcome[t])
      /\ ret[t] \in {UPKI_ERR_NULL_POINTER, UPKI_ERR_CONFIG_PATH} =>
           ~Has(t, "Config::from_file")

\* null out together with a non-UTF-8 path gave ERR_NULL_POINTER
C6_Witness ==
  \E t \in Threads :
    /\ pc[t] = "done" /\ args[t].op = "from_file"
    /\ args[t].out = NULL /\ args[t].path # NULL /\ mem[t].path = <<255>>
    /\ ret[t] = UPKI_ERR_NULL_POINTER

\* ------------------------------------------------------------------- C7
\* what thread t can observe of its own call
Own(t) == <<pc[t], args[t], mem[t], locals[t], ret[t], trace[t], outcome[t], outSlot[t]>>

\* thread t returns from a constructor in this step
CtorReturns(t) ==
  /\ args'[t].op \in Constructors
  /\ pc'[t] = "done"
  /\ Own(t)' # Own(t)

\* C7: every handle is live or dead; the live handles are exactly the ones
\* returned by OK constructors and not yet passed to upki_config_free.  A
\* constructor that returns OK adds one handle that was not live, one that
\* returns an error adds none, upki_config_free on a live handle makes it dead
\* and leaves the others, with their configurations, live; no handle is freed
\* twice.
C7_HandleLifecycle ==
  [][/\ handles' = Live'
     /\ ~doubleFree'
     /\ \A t \in Threads :
          /\ CtorReturns(t) =>
               IF ret'[t] = UPKI_OK
               THEN /\ outSlot'[t] \in Addr \ Live
                    /\ Live' = Live \cup {outSlot'[t]}
                    /\ \A h \in Live : heap'[h] = heap[h]
               ELSE heap' = heap
          /\ (pc[t] = "idle" /\ pc'[t] = "done" /\ args'[t].op = "free"
                /\ args'[t].config # NULL) =>
               /\ args'[t].config \in Live
               /\ Live' = Live \ {args'[t].config}
               /\ heap'[args'[t].config] = <<>>
               /\ \A h \in Live' : heap'[h] = heap[h]]_vars

\* a handle was constructed and destroyed while another handle stays live
C7_Witness ==
  \E t \in Threads :
    /\ pc[t] = "done" /\ args[t].op = "free" /\ args[t].config \in Addr
    /\ heap[args[t].config] = <<>>
    /\ Live # {} /\ handles = Live

\* ------------------------------------------------------------------- C8
\* C8: only upki_check_revocation returns 1, 2 or 3, and it does so whenever
\* the engine produced a status; the constructors return OK or a value >= 16;
\* upki_check_revocation never returns OK, ERR_PLATFORM, ERR_CONFIG_PATH or
\* ERR_CONFIG_FILE; a call that returned a value >= 16 allocated no handle,
\* wrote no out-slot and carries no revocation status.
C8_BandLaw ==
  \A t \in Threads :
    (pc[t] = "done" /\ args[t].op \in {"check", "new", "from_file"}) =>
      /\ ret[t] \in upki_result
      /\ ret[t] \in 1..3 => args[t].op = "check"
      /\ args[t].op = "check" =>
           /\ ret[t] \in {1, 2, 3, 16, 18, 19}
           /\ (ret[t] \in 1..3) = (outcome[t].check \in RevocationStatus)
      /\ args[t].op \in Constructors => (ret[t] = 0 \/ ret[t] >= 16)
      /\ ret[t] >= 16 =>
           /\ ~Has(t, "Box::new") /\ ~Has(t, "write_out")
           /\ outcome[t].check \notin RevocationStatus
           /\ outcome[t].ctor # "ok"

\* the engine said NotRevoked and the query returned 3
C8_Witness ==
  \E t \in Threads :
    /\ pc[t] = "done" /\ args[t].op = "check"
    /\ outcome[t].check = "NotRevoked" /\ ret[t] = 3

\* ------------------------------------------------------------------- C9
\* C9: every step of an upki_check_revocation call leaves the heap (the
\* handle and the configuration it owns), the set of handles and the
\* out-slots unchanged; a query that passes the null check starts without a
\* manifest and has materialized it exactly once when it returns.
C9_StatelessQuery ==
  [][\A t \in Threads :
       (args'[t].op = "check" /\ Own(t)' # Own(t)) =>
         /\ heap' = heap /\ handles' = handles /\ outSlot' = outSlot
         /\ pc'[t] = "check_manifest" =>
              locals'[t].manifest = "none" /\ trace'[t] = <<>>
         /\ (pc'[t] \in {"check_input", "check_engine"}) =>
              N(trace'[t], "Manifest::from_config") = 1
         /\ pc'[t] = "done" =>
              N(trace'[t], "Manifest::from_config") = (IF NullArg(args'[t]) THEN 0 ELSE 1)
         /\ (pc'[t] = "done" /\ ~NullArg(args'[t])) =>
              heap'[args'[t].config] # <<>>]_vars

\* a query has returned a status after materializing the manifest once; the
\* handle it borrowed is still live
C9_Witness ==
  \E t \in Threads :
    /\ pc[t] = "done" /\ args[t].op = "check" /\ ret[t] \in 1..3
    /\ args[t].config \in Live
    /\ trace[t] = <<"Manifest::from_config", "copy_inputs", "Manifest::check">>

\* ------------------------------------------------------------------ C10
\* the result a call running alone gives for its arguments and engine answers
SequentialResult(t) ==
  CASE args[t].op = "check" -> CheckReference(args[t], outcome[t])
    [] args[t].op = "from_file" -> FromFileReference(args[t], mem[t].path, outcome[t])
    [] args[t].op = "new" ->
         IF args[t].out = NULL THEN UPKI_ERR_NULL_POINTER
         ELSE IF outcome[t].ctor = "err" THEN UPKI_ERR_PLATFORM ELSE UPKI_OK
    [] OTHER -> NoRet

\* C10: under every interleaving in which destroy is synchronized against the
\* uses of its handle, a step changes the call state of one thread only, the
\* handle a query in flight borrows keeps its configuration, no dead handle
\* is read, no handle is freed twice, every returned call has the result it
\* has when run alone, and the live handles are those constructed and not
\* destroyed.
C10_NonInterference ==
  [][/\ \A t, u \in Threads : (t # u /\ Own(t)' # Own(t)) => Own(u)' = Own(u)
     /\ \A u \in Threads :
          (args[u].op = "check" /\ pc[u] \in CheckPcs) =>
            /\ heap[args[u].config] # <<>>
            /\ heap'[args[u].config] = heap[args[u].config]
     /\ ~uaf' /\ ~doubleFree'
     /\ \A t \in Threads : pc'[t] = "done" => ret'[t] = SequentialResult(t)'
     /\ handles' = Live']_vars

\* two queries are in the engine on the same handle while it is live
C10_Witness ==
  \E t, u \in Threads :
    /\ t # u
    /\ pc[t] = "check_engine" /\ pc[u] = "check_engine"
    /\ args[t].config = args[u].config /\ args[t].config \in Live
====
